---- MODULE Spec2Model ----
(***************************************************************************)
(* State-machine model of irc-client/examples/irc_daemon.py: the IRCDaemon *)
(* control loop (run), its connect / registration wait, the command file   *)
(* drain (check_commands), send_raw, and the __main__ interrupt handler.   *)
(*                                                                         *)
(* Text is modelled as a sequence of atoms.  An atom is one character      *)
(* (" ", ":", "!", "CR", "LF") or one word that contains none of those     *)
(* characters; the protocol keywords (PING, PRIVMSG, JOIN, PART, 001, ...) *)
(* are words.  Python's string operations are modelled on these sequences. *)
(***************************************************************************)
EXTENDS Integers, Sequences, FiniteSets, TLC

\* ------------------------------------------------------------------ bounds
\* Environment events in one behaviour: chunks delivered, recv timeouts,
\* remote closes and transport errors seen by recv, refused connects, lines
\* appended by the controller, interrupts.  Every cycle of the daemon passes
\* through a recv, so this bounds the length of a behaviour.
MaxEvents == 4

\* Length of the character sequences fed to the buffer / split loop on its own
MaxInput == 5

\* Lines in a command file whose execution is followed on its own
MaxBatch == 2

\* Lines in a received chunk whose handling is followed on its own
MaxInbound == 2

\* ------------------------------------------------------- program constants
RegistrationTimeout == 30   \* _wait_for_welcome(timeout=30)
ReconnectDelay      == 5    \* time.sleep(5)
KeepaliveInterval   == 120  \* time.time() - last_ping > 120
RecvTimeout         == 1    \* sock.settimeout(1.0)

\* --------------------------------------------------------------- text atoms
SP == " "
CR == "CR"
LF == "LF"
CRLF == <<CR, LF>>

Min(a, b) == IF a < b THEN a ELSE b

\* s.startswith(p)
StartsWith(s, p) == Len(s) >= Len(p) /\ SubSeq(s, 1, Len(p)) = p

\* p in s   (substring test)
Contains(s, p) ==
  \E i \in 1..(Len(s) - Len(p) + 1) : SubSeq(s, i, i + Len(p) - 1) = p

\* s.find(p) + 1, or 0 when p does not occur in s
Find(s, p) ==
  IF Contains(s, p)
  THEN CHOOSE i \in 1..(Len(s) - Len(p) + 1) :
         /\ SubSeq(s, i, i + Len(p) - 1) = p
         /\ \A j \in 1..(i - 1) : SubSeq(s, j, j + Len(p) - 1) # p
  ELSE 0

\* s[1:]
Drop1(s) == IF s = <<>> THEN <<>> ELSE Tail(s)

\* s.replace(a, b) for a one-atom pattern: every occurrence is replaced
Replace(s, a, b) == [i \in 1..Len(s) |-> IF s[i] = a THEN b ELSE s[i]]

\* s.split(sep, n) for a one-atom separator: at most n splits, empty fields kept
RECURSIVE SplitN(_, _, _)
SplitN(s, sep, n) ==
  IF n = 0 \/ ~Contains(s, <<sep>>)
  THEN <<s>>
  ELSE LET i == Find(s, <<sep>>)
       IN  <<SubSeq(s, 1, i - 1)>> \o SplitN(SubSeq(s, i + 1, Len(s)), sep, n - 1)

\* s.split(sep)
Split(s, sep) == SplitN(s, sep, Len(s))

\* s.strip(): leading and trailing whitespace removed
RECURSIVE LStrip(_)
LStrip(s) == IF s # <<>> /\ Head(s) \in {SP, CR, LF} THEN LStrip(Tail(s)) ELSE s
RECURSIVE RStrip(_)
RStrip(s) ==
  IF s # <<>> /\ s[Len(s)] \in {SP, CR, LF} THEN RStrip(SubSeq(s, 1, Len(s) - 1)) ELSE s
Strip(s) == RStrip(LStrip(s))

\* line, buffer = buffer.split('\r\n', 1)
HasLine(buf)   == Contains(buf, CRLF)
FirstLine(buf) == SubSeq(buf, 1, Find(buf, CRLF) - 1)
RestAfter(buf) == SubSeq(buf, Find(buf, CRLF) + 2, Len(buf))

\* ------------------------------------------------------------ configuration
\* sys.argv: nickname and channel the daemon was started with
Nickname == <<"nick">>
Channel  == <<"#c">>

\* ----------------------------------------------------------- raw IRC lines
NickMsg == <<"NICK", SP>> \o Nickname
UserMsg == <<"USER", SP>> \o Nickname \o <<SP, "0", SP, "*", SP, ":">> \o Nickname
JoinMsg(channel) == <<"JOIN", SP>> \o channel
PartMsg(channel) == <<"PART", SP>> \o channel
PrivMsg(target, message) == <<"PRIVMSG", SP>> \o target \o <<SP, ":">> \o message
KeepaliveMsg == <<"PING", SP, ":", "keepalive">>
QuitMsg == <<"QUIT", SP, ":", "Daemon", SP, "stopped">>

\* status.txt contents
StStarting     == "STARTING"
StConnected    == "CONNECTED"
StReconnecting == "RECONNECTING"
StStopped      == "STOPPED"
StErrConnect   == "ERROR: connect failed"
StErrClosed    == "ERROR: Connection closed during handshake"
StErrNoWelcome == "ERROR: No welcome within 30s"
StErrException == "ERROR: exception"
ErrorStatuses  == {StErrConnect, StErrClosed, StErrNoWelcome, StErrException}

\* ------------------------------------------------ check_commands: one line
\* What one stripped, non-empty line of commands.txt makes the daemon do:
\* the raw messages handed to send_raw and whether self.running is cleared.
\* Faulty variant: SEND splits at every space and sends the first word only
CommandSends_FirstWord(line) ==
  IF StartsWith(line, <<"SEND", SP>>)
  THEN LET parts == Split(line, SP)
       IN  IF Len(parts) >= 3 THEN <<PrivMsg(parts[2], parts[3])>> ELSE <<>>
  ELSE IF StartsWith(line, <<"JOIN", SP>>)
  THEN <<JoinMsg(SplitN(line, SP, 1)[2])>>
  ELSE IF StartsWith(line, <<"PART", SP>>)
  THEN <<PartMsg(SplitN(line, SP, 1)[2])>>
  ELSE <<>>

CommandSends(line) ==
  IF StartsWith(line, <<"SEND", SP>>)
  THEN LET parts == SplitN(line, SP, 2)
       IN  IF Len(parts) >= 3 THEN <<PrivMsg(parts[2], parts[3])>> ELSE <<>>
  ELSE IF StartsWith(line, <<"JOIN", SP>>)
  THEN <<JoinMsg(SplitN(line, SP, 1)[2])>>
  ELSE IF StartsWith(line, <<"PART", SP>>)
  THEN <<PartMsg(SplitN(line, SP, 1)[2])>>
  ELSE <<>>

CommandQuits(line) ==
  /\ ~StartsWith(line, <<"SEND", SP>>)
  /\ ~StartsWith(line, <<"JOIN", SP>>)
  /\ ~StartsWith(line, <<"PART", SP>>)
  /\ line = <<"QUIT">>

\* ------------------------------------------------- inbound line handling
IsPing(line)   == StartsWith(line, <<"PING">>)
PongFor(line)  == Replace(line, "PING", "PONG")
HasWelcome(line) == Contains(line, <<SP, "001", SP>>)

\* parts[0][1:].split('!')[0]
UserOf(field) == Split(Drop1(field), "!")[1]

\* field[1:] if field.startswith(':') else field
StripColon(field) == IF StartsWith(field, <<":">>) THEN Drop1(field) ELSE field

\* Faulty variant: a JOIN line is logged only when it has 4 fields or more
InboxRecords_JoinFour(line) ==
  IF Contains(line, <<"PRIVMSG">>)
  THEN LET parts == SplitN(line, SP, 3)
       IN  IF Len(parts) >= 4
           THEN << UserOf(parts[1]) \o <<SP, "->", SP>> \o parts[3] \o <<":", SP>>
                     \o StripColon(parts[4]) >>
           ELSE <<>>
  ELSE IF Contains(line, <<"JOIN">>)
  THEN LET parts == Split(line, SP)
       IN  IF Len(parts) >= 4
           THEN << <<"SYSTEM", ":", SP>> \o UserOf(parts[1]) \o <<SP, "joined", SP>>
                     \o StripColon(parts[3]) >>
           ELSE <<>>
  ELSE IF Contains(line, <<"PART">>)
  THEN LET parts == Split(line, SP)
       IN  IF Len(parts) >= 3
           THEN << <<"SYSTEM", ":", SP>> \o UserOf(parts[1]) \o <<SP, "left", SP>>
                     \o parts[3] >>
           ELSE <<>>
  ELSE <<>>

\* The records a non-PING line appends to inbox.txt in steady state
\* (the leading timestamp of each record is left out).
InboxRecords(line) ==
  IF Contains(line, <<"PRIVMSG">>)
  THEN LET parts == SplitN(line, SP, 3)
       IN  IF Len(parts) >= 4
           THEN << UserOf(parts[1]) \o <<SP, "->", SP>> \o parts[3] \o <<":", SP>>
                     \o StripColon(parts[4]) >>
           ELSE <<>>
  ELSE IF Contains(line, <<"JOIN">>)
  THEN LET parts == Split(line, SP)
       IN  IF Len(parts) >= 3
           THEN << <<"SYSTEM", ":", SP>> \o UserOf(parts[1]) \o <<SP, "joined", SP>>
                     \o StripColon(parts[3]) >>
           ELSE <<>>
  ELSE IF Contains(line, <<"PART">>)
  THEN LET parts == Split(line, SP)
       IN  IF Len(parts) >= 3
           THEN << <<"SYSTEM", ":", SP>> \o UserOf(parts[1]) \o <<SP, "left", SP>>
                     \o parts[3] >>
           ELSE <<>>
  ELSE <<>>

\* ----------------------------------------------------- environment inputs
\* Lines the external controller appends to commands.txt
SendLine    == <<"SEND", SP, "#c", SP, "hi", SP, "all">>
PartLine    == <<"PART", SP, "#c">>
QuitLine    == <<"QUIT">>
UnknownLine == <<"FOO">>
WriterLines == {SendLine, PartLine, QuitLine, UnknownLine}

\* Contents commands.txt may have when the daemon is constructed
InitialQueues == {<<>>, <<QuitLine>>, <<SendLine, QuitLine>>}

\* Chunks of bytes the server may deliver to one recv call
WelcomeLine  == <<"srv", SP, "001", SP, "nick">>
PingPingLine == <<"PING", SP, ":", "PING">>
PingWelcome  == <<"PING", SP, "001", SP, "x">>
ChatLine     == <<":", "bob", "!", "u", SP, "PRIVMSG", SP, "#c", SP, ":", "yo">>
Fragment     == <<"x">>
Chunks ==
  { WelcomeLine \o CRLF,
    PingPingLine \o CRLF,
    PingWelcome \o CRLF,
    WelcomeLine \o CRLF \o ChatLine \o CRLF,
    Fragment }

\* Wall-clock time a recv that ends in socket.timeout is observed to have
\* taken: the socket timeout itself, or longer when the process was stalled.
TimeoutDurations == {RecvTimeout, KeepaliveInterval + 1}

\* ------------------------------------------------------------------ state
VARIABLES
  pc,         \* where the daemon process is (see the actions below)
  caller,     \* call site of the connect in progress: "run" (line 148),
              \* "eof" (line 166) or "exc" (line 227)
  running,    \* self.running
  inHandler,  \* the process is in __main__'s except KeyboardInterrupt block
  sock,       \* self.sock: "none", "unconnected", "open", "dead" (a send or the
              \* peer broke it), "closed"
  registered, \* the session on self.sock has seen the 001 welcome
  sent,       \* lines the transport accepted on self.sock, oldest first
  status,     \* status.txt
  commands,   \* commands.txt: a sequence of [id, text] lines
  lines,      \* check_commands' local `lines` still to be processed
  outbox,     \* outbox.txt records, oldest first (timestamps left out)
  inbox,      \* inbox.txt records, oldest first (timestamps left out)
  buffer,     \* run's local `buffer`
  wbuffer,    \* _wait_for_welcome's local `buffer`
  elapsed,    \* time.time() - start in _wait_for_welcome, capped at the timeout
  idle,       \* time.time() - last_ping in run, capped above the interval
  nEvents,    \* environment events so far
  executed,   \* history: ids of the command lines the daemon has processed
  appended,   \* history: ids of all lines ever put into commands.txt
  lastDrain,  \* history: number of lines read by the latest check_commands
              \* call, -1 before the first
  written,    \* history: the controller appended since the last read
  intAt,      \* history: phase in which the first interrupt arrived, or "none"
  quitSeen,   \* history: a QUIT command line has been processed
  connResult, \* history: outcome of the latest connect call
  batch,      \* history: texts of the lines read by the latest check_commands
  framer      \* the buffer / split loop of run on its own (see SpecFraming)

vars == <<pc, caller, running, inHandler, sock, registered, sent, status,
          commands, lines, outbox, inbox, buffer, wbuffer, elapsed, idle,
          nEvents,
          executed, appended, lastDrain, written, intAt, quitSeen, connResult,
          batch, framer>>

history  == <<executed, appended, lastDrain, written, intAt, quitSeen, connResult,
              batch>>

IdleCap == KeepaliveInterval + 1

\* The buffer / split loop before any data was received: `rest` is what the
\* transport has still to deliver, `fed` what it has delivered, `buffer` the
\* local buffer, `lines` the lines taken off it, `at` the position in the
\* loop, `cut` whether a CR LF pair arrived in two different chunks
FramerIdle ==
  [rest |-> <<>>, fed |-> <<>>, buffer |-> <<>>, lines |-> <<>>, at |-> "recv",
   cut |-> FALSE]

\* Faulty variant: the command file is emptied when the daemon is constructed
Numbered_Cleared(q) == <<>>

\* Lines left in commands.txt before the daemon started get the ids -1, -2, ...;
\* the lines the controller appends later get 1, 2, ...
Numbered(q) == [i \in 1..Len(q) |-> [id |-> 0 - i, text |-> q[i]]]

\* IRCDaemon.__init__ has run: control files exist, status is STARTING
Init ==
  /\ pc = "start"
  /\ caller = "run"
  /\ running = TRUE
  /\ inHandler = FALSE
  /\ sock = "none"
  /\ registered = FALSE
  /\ sent = <<>>
  /\ status = StStarting
  /\ \E q \in InitialQueues :
       /\ commands = Numbered(q)
       /\ appended = {0 - i : i \in 1..Len(q)}
  /\ lines = <<>>
  /\ outbox = <<>>
  /\ inbox = <<>>
  /\ buffer = <<>>
  /\ wbuffer = <<>>
  /\ elapsed = 0
  /\ idle = 0
  /\ nEvents = 0
  /\ executed = <<>>
  /\ lastDrain = 0 - 1
  /\ written = FALSE
  /\ intAt = "none"
  /\ quitSeen = FALSE
  /\ connResult = "none"
  /\ batch = <<>>
  /\ framer = FramerIdle

\* -------------------------------------------------------------- send_raw
\* send_raw(message): sock.send, then the outbox record; any exception is
\* swallowed.  `ok` is whether the transport accepts the bytes; a refusal is
\* an environment event and leaves the connection broken.  `n` is the number
\* of other environment events in the same step.
SendRaw(message, ok, n) ==
  IF sock = "open" /\ ok
  THEN /\ sent' = Append(sent, message)
       /\ outbox' = Append(outbox, message)
       /\ sock' = sock
       /\ nEvents' = nEvents + n
  ELSE /\ sock = "open" => nEvents + n < MaxEvents
       /\ sent' = sent
       /\ outbox' = outbox
       /\ sock' = IF sock = "open" THEN "dead" ELSE sock
       /\ nEvents' = nEvents + n + (IF sock = "open" THEN 1 ELSE 0)

\* send_raw is not called in this step
NoSend == UNCHANGED <<sock, sent, outbox, nEvents>>

\* ------------------------------------------------------ connect's callers
\* connect returned False: line 149 returns from run, lines 167/228 break
AfterConnectFalse == IF caller = "run" THEN "done" ELSE "cleanup"

\* time.time() - last_ping after d more time units
IdleAfter(d) == Min(idle + d, IdleCap)

\* ------------------------------------------------------------ loop phases
\* The daemon-loop state a program position belongs to
ConnectPcs == {"c_sock", "c_nick", "c_user", "w_loop", "w_line", "c_join"}
RunningPcs == {"loop", "cc_read", "cc_exec", "recv", "proc"}
SleepPcs   == {"eof_sleep", "exc_sleep"}
CleanupPcs == {"cleanup", "cl_quit", "cl_close"}

Phase ==
  IF pc = "start" THEN "Starting"
  ELSE IF pc \in ConnectPcs /\ inHandler THEN "Stopping"
  ELSE IF pc \in ConnectPcs /\ caller = "run" THEN "Connecting"
  ELSE IF pc \in ConnectPcs \cup SleepPcs THEN "Reconnecting"
  ELSE IF pc \in RunningPcs /\ running THEN "Running"
  ELSE IF pc \in RunningPcs \cup CleanupPcs THEN "Stopping"
  ELSE IF pc = "crashed" THEN "Crashed"
  ELSE IF status = StStopped THEN "Stopped"
  ELSE "Failed"

\* ---------------------------------------------------------------- connect
\* __main__ line 271 (or 275): daemon.run() is entered and calls connect
RunEnter ==
  /\ pc = "start"
  /\ pc' = "c_sock"
  /\ caller' = "run"
  /\ UNCHANGED <<framer,
                 running, inHandler, sock, registered, sent, status, commands,
                 lines, outbox, inbox, buffer, wbuffer, elapsed, idle,
                 nEvents, history>>

\* connect lines 45-49: a new socket replaces self.sock and connects
ConnectOpenOk ==
  /\ pc = "c_sock"
  /\ sock' = "open"
  /\ registered' = FALSE
  /\ sent' = <<>>
  /\ connResult' = "pending"
  /\ pc' = "c_nick"
  /\ UNCHANGED <<framer,
                 batch,
                 caller, running, inHandler, status, commands, lines, outbox,
                 inbox, buffer, wbuffer, elapsed, idle, nEvents,
                 executed, appended, lastDrain, written, intAt, quitSeen>>

\* connect lines 45-53: sock.connect raises; status ERROR, return False
ConnectOpenFail ==
  /\ pc = "c_sock"
  /\ nEvents < MaxEvents
  /\ nEvents' = nEvents + 1
  /\ sock' = "unconnected"
  /\ registered' = FALSE
  /\ sent' = <<>>
  /\ status' = StErrConnect
  /\ connResult' = "ConnectError"
  /\ pc' = AfterConnectFalse
  /\ UNCHANGED <<framer,
                 batch,
                 caller, running, inHandler, commands, lines, outbox,
                 inbox, buffer, wbuffer, elapsed, idle,
                 executed, appended, lastDrain, written, intAt, quitSeen>>

\* connect line 55
ConnectNick ==
  /\ pc = "c_nick"
  /\ \E ok \in BOOLEAN : SendRaw(NickMsg, ok, 0)
  /\ pc' = "c_user"
  /\ UNCHANGED <<framer,
                 caller, running, inHandler, registered, status, commands,
                 lines, inbox, buffer, wbuffer, elapsed, idle, history>>

\* connect line 56, then _wait_for_welcome lines 71-72
ConnectUser ==
  /\ pc = "c_user"
  /\ \E ok \in BOOLEAN : SendRaw(UserMsg, ok, 0)
  /\ wbuffer' = <<>>
  /\ elapsed' = 0
  /\ pc' = "w_loop"
  /\ UNCHANGED <<framer,
                 caller, running, inHandler, registered, status, commands,
                 lines, inbox, buffer, idle, history>>

\* _wait_for_welcome lines 73, 89-91: the deadline has passed
WaitExpired ==
  /\ pc = "w_loop"
  /\ elapsed >= RegistrationTimeout
  /\ status' = StErrNoWelcome
  /\ connResult' = "RegistrationTimeout"
  /\ pc' = AfterConnectFalse
  /\ UNCHANGED <<framer,
                 batch,
                 caller, running, inHandler, sock, registered, sent, commands,
                 lines, outbox, inbox, buffer, wbuffer, elapsed, idle,
                 nEvents, executed, appended, lastDrain, written, intAt, quitSeen>>

\* _wait_for_welcome lines 75, 80: recv returns data
WaitRecvData ==
  /\ pc = "w_loop"
  /\ elapsed < RegistrationTimeout
  /\ sock = "open"
  /\ nEvents < MaxEvents
  /\ nEvents' = nEvents + 1
  /\ \E chunk \in Chunks : wbuffer' = wbuffer \o chunk
  /\ pc' = "w_line"
  /\ UNCHANGED <<framer,
                 caller, running, inHandler, sock, registered, sent, status,
                 commands, lines, outbox, inbox, buffer, elapsed, idle,
                 history>>

\* _wait_for_welcome lines 76-79: recv returns '' (the server closed)
WaitRecvEOF ==
  /\ pc = "w_loop"
  /\ elapsed < RegistrationTimeout
  /\ sock \in {"open", "dead"}
  /\ nEvents < MaxEvents
  /\ nEvents' = nEvents + 1
  /\ status' = StErrClosed
  /\ connResult' = "ConnectionClosed"
  /\ pc' = AfterConnectFalse
  /\ UNCHANGED <<framer,
                 batch,
                 caller, running, inHandler, sock, registered, sent, commands,
                 lines, outbox, inbox, buffer, wbuffer, elapsed, idle,
                 executed, appended, lastDrain, written, intAt, quitSeen>>

\* _wait_for_welcome lines 87-88: recv times out, loop again
WaitRecvTimeout ==
  /\ pc = "w_loop"
  /\ elapsed < RegistrationTimeout
  /\ sock = "open"
  /\ nEvents < MaxEvents
  /\ nEvents' = nEvents + 1
  /\ \E d \in TimeoutDurations :
       /\ elapsed' = Min(elapsed + d, RegistrationTimeout)
       /\ idle' = IF caller = "run" THEN idle ELSE IdleAfter(d)
  /\ UNCHANGED <<framer,
                 pc, caller, running, inHandler, sock, registered, sent, status,
                 commands, lines, outbox, inbox, buffer, wbuffer,
                 history>>

\* _wait_for_welcome line 75: recv raises something other than socket.timeout.
\* Nothing in _wait_for_welcome or connect catches it.  From line 148 it
\* leaves run and ends the process; from line 166 it is caught at line 223
\* (status ERROR, then the sleep of line 226); from line 227 it leaves run.
WaitRecvError ==
  /\ pc = "w_loop"
  /\ elapsed < RegistrationTimeout
  /\ sock \in {"open", "dead"}
  /\ nEvents < MaxEvents
  /\ nEvents' = nEvents + 1
  /\ connResult' = "raised"
  /\ pc' = IF caller = "eof" THEN "exc_sleep" ELSE "crashed"
  /\ status' = IF caller = "eof" THEN StErrException ELSE status
  /\ UNCHANGED <<framer,
                 batch,
                 caller, running, inHandler, sock, registered, sent, commands,
                 lines, outbox, inbox, buffer, wbuffer, elapsed, idle,
                 executed, appended, lastDrain, written, intAt, quitSeen>>

\* Faulty variants of the welcome test: one that lets any line end the wait,
\* and one that only looks for 001 at the start of the line.
WaitLineNext_AnyLine(line) == "c_join"
WaitLineNext_Prefix(line) ==
  IF StartsWith(line, <<"001", SP>>) THEN "c_join" ELSE "w_line"

\* _wait_for_welcome lines 85-86: a line with ' 001 ' in it ends the wait
WaitLineNext(line) ==
  IF Contains(line, <<SP, "001", SP>>) THEN "c_join" ELSE "w_line"

\* _wait_for_welcome lines 81-86: one complete line is taken off the buffer
WaitLine ==
  /\ pc = "w_line"
  /\ HasLine(wbuffer)
  /\ LET line == FirstLine(wbuffer)
     IN  /\ wbuffer' = RestAfter(wbuffer)
         /\ IF IsPing(line)
            THEN \E ok \in BOOLEAN : SendRaw(PongFor(line), ok, 0)
            ELSE NoSend
         /\ registered' = HasWelcome(line)
         /\ pc' = WaitLineNext(line)
  /\ UNCHANGED <<framer,
                 caller, running, inHandler, status, commands, lines, inbox,
                 buffer, elapsed, idle, history>>

\* _wait_for_welcome line 81: no complete line is left, back to line 73
WaitNoLine ==
  /\ pc = "w_line"
  /\ ~HasLine(wbuffer)
  /\ pc' = "w_loop"
  /\ UNCHANGED <<framer,
                 caller, running, inHandler, sock, registered, sent, status,
                 commands, lines, outbox, inbox, buffer, wbuffer, elapsed, idle,
                 nEvents, history>>

\* connect lines 63-67: JOIN, status CONNECTED, return True; at line 148 the
\* caller then runs lines 151-152 (buffer = "", last_ping = now)
ConnectJoin ==
  /\ pc = "c_join"
  /\ \E ok \in BOOLEAN : SendRaw(JoinMsg(Channel), ok, 0)
  /\ status' = StConnected
  /\ connResult' = "ok"
  /\ buffer' = IF caller = "run" THEN <<>> ELSE buffer
  /\ idle' = IF caller = "run" THEN 0 ELSE idle
  /\ pc' = "loop"
  /\ UNCHANGED <<framer,
                 batch,
                 caller, running, inHandler, registered, commands, lines, inbox,
                 wbuffer, elapsed,
                 executed, appended, lastDrain, written, intAt, quitSeen>>

\* ------------------------------------------------------------------- run
\* run line 154: while self.running
LoopTest ==
  /\ pc = "loop"
  /\ pc' = IF running THEN "cc_read" ELSE "cleanup"
  /\ UNCHANGED <<framer,
                 caller, running, inHandler, sock, registered, sent, status,
                 commands, lines, outbox, inbox, buffer, wbuffer, elapsed, idle,
                 nEvents, history>>

\* Faulty variant of the read: only the first line of the file is taken
CheckRead_FirstOnly ==
  /\ pc = "cc_read"
  /\ written' = FALSE
  /\ IF commands # <<>>
     THEN /\ lines' = <<Head(commands)>>
          /\ pc' = "cc_exec"
     ELSE /\ lines' = <<>>
          /\ pc' = "recv"
  /\ lastDrain' = Len(commands)
  /\ batch' = [i \in 1..Len(commands) |-> commands[i].text]
  /\ UNCHANGED <<framer,
                 caller, running, inHandler, sock, registered, sent, status,
                 commands, outbox, inbox, buffer, wbuffer, elapsed, idle,
                 nEvents, executed, appended, intAt, quitSeen, connResult>>

\* check_commands lines 105-107: stat, then readlines when the file is not
\* empty; an empty file ends the call
CheckRead ==
  /\ pc = "cc_read"
  /\ written' = FALSE
  /\ IF commands # <<>>
     THEN /\ lines' = commands
          /\ pc' = "cc_exec"
     ELSE /\ lines' = <<>>
          /\ pc' = "recv"
  /\ lastDrain' = Len(commands)
  /\ batch' = [i \in 1..Len(commands) |-> commands[i].text]
  /\ UNCHANGED <<framer,
                 caller, running, inHandler, sock, registered, sent, status,
                 commands, outbox, inbox, buffer, wbuffer, elapsed, idle,
                 nEvents, executed, appended, intAt, quitSeen, connResult>>

\* Faulty variant: the line QUIT ends the batch, the lines after it are dropped
CheckExec_QuitBreaks ==
  /\ pc = "cc_exec"
  /\ lines # <<>>
  /\ LET line == Strip(Head(lines).text)
     IN  /\ IF line # <<>> /\ CommandSends(line) # <<>>
            THEN \E ok \in BOOLEAN : SendRaw(CommandSends(line)[1], ok, 0)
            ELSE NoSend
         /\ running' = IF line # <<>> /\ CommandQuits(line) THEN FALSE ELSE running
         /\ quitSeen' = (quitSeen \/ (line # <<>> /\ CommandQuits(line)))
         /\ executed' = IF line # <<>> THEN Append(executed, Head(lines).id)
                        ELSE executed
  /\ lines' = IF CommandQuits(Strip(Head(lines).text)) THEN <<>> ELSE Tail(lines)
  /\ UNCHANGED <<framer,
                 batch,
                 pc, caller, inHandler, registered, status, commands, inbox,
                 buffer, wbuffer, elapsed, idle,
                 appended, lastDrain, written, intAt, connResult>>

\* check_commands lines 109-139: the next line read is stripped and executed
CheckExec ==
  /\ pc = "cc_exec"
  /\ lines # <<>>
  /\ LET line == Strip(Head(lines).text)
     IN  /\ IF line # <<>> /\ CommandSends(line) # <<>>
            THEN \E ok \in BOOLEAN : SendRaw(CommandSends(line)[1], ok, 0)
            ELSE NoSend
         /\ running' = IF line # <<>> /\ CommandQuits(line) THEN FALSE ELSE running
         /\ quitSeen' = (quitSeen \/ (line # <<>> /\ CommandQuits(line)))
         /\ executed' = IF line # <<>> THEN Append(executed, Head(lines).id)
                        ELSE executed
  /\ lines' = Tail(lines)
  /\ UNCHANGED <<framer,
                 batch,
                 pc, caller, inHandler, registered, status, commands, inbox,
                 buffer, wbuffer, elapsed, idle,
                 appended, lastDrain, written, intAt, connResult>>

\* Faulty variant of the truncation: the file is left as it is
ClearCommands_Kept == commands

\* check_commands line 142: every line was processed, the file is truncated
ClearCommands == <<>>

CheckClear ==
  /\ pc = "cc_exec"
  /\ lines = <<>>
  /\ commands' = ClearCommands
  /\ pc' = "recv"
  /\ UNCHANGED <<framer,
                 batch,
                 caller, running, inHandler, sock, registered, sent, status,
                 lines, outbox, inbox, buffer, wbuffer, elapsed, idle, nEvents,
                 executed, appended, lastDrain, written, intAt, quitSeen,
                 connResult>>

\* run lines 160, 170: recv returns data
RecvData ==
  /\ pc = "recv"
  /\ sock = "open"
  /\ nEvents < MaxEvents
  /\ nEvents' = nEvents + 1
  /\ \E chunk \in Chunks : buffer' = buffer \o chunk
  /\ pc' = "proc"
  /\ UNCHANGED <<framer,
                 caller, running, inHandler, sock, registered, sent, status,
                 commands, lines, outbox, inbox, wbuffer, elapsed, idle,
                 history>>

\* run lines 162-164: recv returns '' ; status RECONNECTING
RecvEOF ==
  /\ pc = "recv"
  /\ sock \in {"open", "dead"}
  /\ nEvents < MaxEvents
  /\ nEvents' = nEvents + 1
  /\ status' = StReconnecting
  /\ pc' = "eof_sleep"
  /\ UNCHANGED <<framer,
                 caller, running, inHandler, sock, registered, sent, commands,
                 lines, outbox, inbox, buffer, wbuffer, elapsed, idle,
                 history>>

\* run lines 218-222: recv timed out and the keepalive interval has not passed
RecvTimeoutQuiet ==
  /\ pc = "recv"
  /\ sock = "open"
  /\ nEvents < MaxEvents
  /\ \E d \in TimeoutDurations :
       /\ ~(IdleAfter(d) > KeepaliveInterval)
       /\ idle' = IdleAfter(d)
  /\ nEvents' = nEvents + 1
  /\ pc' = "loop"
  /\ UNCHANGED <<framer,
                 caller, running, inHandler, sock, registered, sent, status,
                 commands, lines, outbox, inbox, buffer, wbuffer, elapsed,
                 history>>

\* run lines 218-222: recv timed out more than 120 after last_ping: PING
RecvTimeoutKeepalive ==
  /\ pc = "recv"
  /\ sock = "open"
  /\ nEvents < MaxEvents
  /\ \E d \in TimeoutDurations : IdleAfter(d) > KeepaliveInterval
  /\ \E ok \in BOOLEAN : SendRaw(KeepaliveMsg, ok, 1)
  /\ idle' = 0
  /\ pc' = "loop"
  /\ UNCHANGED <<framer,
                 caller, running, inHandler, registered, status,
                 commands, lines, inbox, buffer, wbuffer, elapsed,
                 history>>

\* run lines 223-225: recv raises; status ERROR
RecvError ==
  /\ pc = "recv"
  /\ sock \in {"open", "dead"}
  /\ nEvents < MaxEvents
  /\ nEvents' = nEvents + 1
  /\ status' = StErrException
  /\ pc' = "exc_sleep"
  /\ UNCHANGED <<framer,
                 caller, running, inHandler, sock, registered, sent, commands,
                 lines, outbox, inbox, buffer, wbuffer, elapsed, idle,
                 history>>

\* run lines 172-216: one complete line is taken off the buffer and handled
ProcLine ==
  /\ pc = "proc"
  /\ HasLine(buffer)
  /\ LET line == FirstLine(buffer)
     IN  /\ buffer' = RestAfter(buffer)
         /\ IF IsPing(line)
            THEN /\ \E ok \in BOOLEAN : SendRaw(PongFor(line), ok, 0)
                 /\ idle' = 0
                 /\ inbox' = inbox
            ELSE /\ NoSend
                 /\ idle' = idle
                 /\ inbox' = inbox \o InboxRecords(line)
  /\ UNCHANGED <<framer,
                 pc, caller, running, inHandler, registered, status, commands,
                 lines, wbuffer, elapsed, history>>

\* run line 172: no complete line is left, back to line 154
ProcDone ==
  /\ pc = "proc"
  /\ ~HasLine(buffer)
  /\ pc' = "loop"
  /\ UNCHANGED <<framer,
                 caller, running, inHandler, sock, registered, sent, status,
                 commands, lines, outbox, inbox, buffer, wbuffer, elapsed, idle,
                 nEvents, history>>

\* run lines 165-166: sleep, then connect again
SleepAfterEOF ==
  /\ pc = "eof_sleep"
  /\ idle' = IdleAfter(ReconnectDelay)
  /\ caller' = "eof"
  /\ pc' = "c_sock"
  /\ UNCHANGED <<framer,
                 running, inHandler, sock, registered, sent, status, commands,
                 lines, outbox, inbox, buffer, wbuffer, elapsed,
                 nEvents, history>>

\* run lines 226-227: sleep, then connect again
SleepAfterError ==
  /\ pc = "exc_sleep"
  /\ idle' = IdleAfter(ReconnectDelay)
  /\ caller' = "exc"
  /\ pc' = "c_sock"
  /\ UNCHANGED <<framer,
                 running, inHandler, sock, registered, sent, status, commands,
                 lines, outbox, inbox, buffer, wbuffer, elapsed,
                 nEvents, history>>

\* run line 231
CleanupStatus ==
  /\ pc = "cleanup"
  /\ status' = StStopped
  /\ pc' = "cl_quit"
  /\ UNCHANGED <<framer,
                 caller, running, inHandler, sock, registered, sent, commands,
                 lines, outbox, inbox, buffer, wbuffer, elapsed, idle,
                 nEvents, history>>

\* run lines 232-236: sock.send of the QUIT line, not through send_raw; if it
\* raises, the bare except skips the close
CleanupQuit ==
  /\ pc = "cl_quit"
  /\ \E ok \in BOOLEAN :
       IF sock = "open" /\ ok
       THEN /\ sent' = Append(sent, QuitMsg)
            /\ sock' = sock
            /\ nEvents' = nEvents
            /\ pc' = "cl_close"
       ELSE /\ sock = "open" => nEvents < MaxEvents
            /\ sent' = sent
            /\ sock' = IF sock = "open" THEN "dead" ELSE sock
            /\ nEvents' = nEvents + (IF sock = "open" THEN 1 ELSE 0)
            /\ pc' = "done"
  /\ UNCHANGED <<framer,
                 caller, running, inHandler, registered, status, commands,
                 lines, outbox, inbox, buffer, wbuffer, elapsed, idle, history>>

\* run line 234
CleanupClose ==
  /\ pc = "cl_close"
  /\ sock' = "closed"
  /\ pc' = "done"
  /\ UNCHANGED <<framer,
                 caller, running, inHandler, registered, sent, status, commands,
                 lines, outbox, inbox, buffer, wbuffer, elapsed, idle,
                 nEvents, history>>

\* ------------------------------------------------------------ environment
\* The external controller appends one line to commands.txt
\* (echo "..." >> commands.txt) while the daemon process is alive
Writer ==
  /\ pc \notin {"done", "crashed"}
  /\ nEvents < MaxEvents
  /\ nEvents' = nEvents + 1
  /\ \E text \in WriterLines :
       commands' = Append(commands,
                          [id |-> nEvents + 1, text |-> text])
  /\ appended' = appended \cup {nEvents + 1}
  /\ written' = TRUE
  /\ UNCHANGED <<framer,
                 batch,
                 pc, caller, running, inHandler, sock, registered, sent, status,
                 lines, outbox, inbox, buffer, wbuffer, elapsed, idle,
                 executed, lastDrain, intAt, quitSeen, connResult>>

\* The process receives SIGINT while run is on the stack.  Inside the try
\* of lines 232-236 the bare except swallows it.  Otherwise it leaves run:
\* __main__ lines 272-275 clear self.running and call run again, which starts
\* with connect; a second one, raised inside that handler, ends the process.
Interrupt ==
  /\ pc \notin {"start", "done", "crashed"}
  /\ nEvents < MaxEvents
  /\ nEvents' = nEvents + 1
  /\ intAt' = IF intAt = "none" THEN Phase ELSE intAt
  /\ IF pc \in {"cl_quit", "cl_close"}
     THEN /\ pc' = "done"
          /\ UNCHANGED <<caller, running, inHandler, lines, buffer, wbuffer,
                         elapsed, idle>>
     ELSE IF inHandler
     THEN /\ pc' = "crashed"
          /\ UNCHANGED <<caller, running, inHandler, lines, buffer, wbuffer,
                         elapsed, idle>>
     ELSE /\ pc' = "c_sock"
          /\ caller' = "run"
          /\ running' = FALSE
          /\ inHandler' = TRUE
          /\ lines' = <<>>
          /\ buffer' = <<>>
          /\ wbuffer' = <<>>
          /\ elapsed' = 0
          /\ idle' = 0
  /\ UNCHANGED <<framer,
                 batch,
                 sock, registered, sent, status, commands, outbox, inbox,
                 executed, appended, lastDrain, written, quitSeen, connResult>>

Next ==
  \/ RunEnter
  \/ ConnectOpenOk
  \/ ConnectOpenFail
  \/ ConnectNick
  \/ ConnectUser
  \/ WaitExpired
  \/ WaitRecvData
  \/ WaitRecvEOF
  \/ WaitRecvTimeout
  \/ WaitRecvError
  \/ WaitLine
  \/ WaitNoLine
  \/ ConnectJoin
  \/ LoopTest
  \/ CheckRead
  \/ CheckExec
  \/ CheckClear
  \/ RecvData
  \/ RecvEOF
  \/ RecvTimeoutQuiet
  \/ RecvTimeoutKeepalive
  \/ RecvError
  \/ ProcLine
  \/ ProcDone
  \/ SleepAfterEOF
  \/ SleepAfterError
  \/ CleanupStatus
  \/ CleanupQuit
  \/ CleanupClose
  \/ Writer
  \/ Interrupt

Spec == Init /\ [][Next]_vars

\* ------------------------------------------- the buffer / split loop alone
\* run lines 160, 170-173 with nothing else of the daemon moving: the
\* transport delivers a character sequence in chunks of any size, each chunk
\* is appended to the buffer and the complete lines are taken off it.
daemon == <<pc, caller, running, inHandler, sock, registered, sent, status,
            commands, lines, outbox, inbox, buffer, wbuffer, elapsed, idle,
            nEvents, history>>

\* Characters the transport may deliver: an ordinary one and the two of the
\* terminator
FrameAtoms == {"a", CR, LF}
FrameInputs == UNION {[1..n -> FrameAtoms] : n \in 0..MaxInput}

FramingInit ==
  /\ pc = "start"
  /\ caller = "run"
  /\ running = TRUE
  /\ inHandler = FALSE
  /\ sock = "none"
  /\ registered = FALSE
  /\ sent = <<>>
  /\ status = StStarting
  /\ commands = <<>>
  /\ appended = {}
  /\ lines = <<>>
  /\ outbox = <<>>
  /\ inbox = <<>>
  /\ buffer = <<>>
  /\ wbuffer = <<>>
  /\ elapsed = 0
  /\ idle = 0
  /\ nEvents = 0
  /\ executed = <<>>
  /\ lastDrain = 0 - 1
  /\ written = FALSE
  /\ intAt = "none"
  /\ quitSeen = FALSE
  /\ connResult = "none"
  /\ batch = <<>>
  /\ \E input \in FrameInputs : framer = [FramerIdle EXCEPT !.rest = input]

\* Faulty variant of the append: the buffer is started afresh by every chunk
FrameAppend_Fresh(buf, data) == data

\* run line 170: buffer += data
FrameAppend(buf, data) == buf \o data

\* run lines 160, 170: recv returns the next k characters
FrameRecv ==
  /\ framer.at = "recv"
  /\ framer.rest # <<>>
  /\ \E k \in 1..Len(framer.rest) :
       LET data == SubSeq(framer.rest, 1, k)
       IN  framer' = [framer EXCEPT
                        !.rest = SubSeq(framer.rest, k + 1, Len(framer.rest)),
                        !.fed = @ \o data,
                        !.buffer = FrameAppend(@, data),
                        !.at = "split",
                        !.cut = @ \/ (/\ k < Len(framer.rest)
                                      /\ framer.rest[k] = CR
                                      /\ framer.rest[k + 1] = LF)]
  /\ UNCHANGED daemon

\* run lines 172-173: one complete line is taken off the buffer
FrameSplit ==
  /\ framer.at = "split"
  /\ HasLine(framer.buffer)
  /\ framer' = [framer EXCEPT !.lines = Append(@, FirstLine(framer.buffer)),
                              !.buffer = RestAfter(framer.buffer)]
  /\ UNCHANGED daemon

\* run line 172: no complete line is left, back to the recv
FrameDone ==
  /\ framer.at = "split"
  /\ ~HasLine(framer.buffer)
  /\ framer' = [framer EXCEPT !.at = "recv"]
  /\ UNCHANGED daemon

FramingNext ==
  \/ FrameRecv
  \/ FrameSplit
  \/ FrameDone

SpecFraming == FramingInit /\ [][FramingNext]_vars

\* ------------------------------------------- one drain of the command file
\* check_commands lines 109-142 on a command file of any content: the daemon
\* has connected, found the file not empty and read it (lines 105-107).
JoinLine    == <<"JOIN", SP, "#d">>
JoinBare    == <<"JOIN">>
SendNoText  == <<"SEND", SP, "#c">>
QuitMore    == <<"QUIT", SP, "now">>
PaddedPart  == <<SP, "PART", SP, "#c", LF>>
BlankLine   == <<SP, LF>>
CommandLines ==
  {SendLine, SendNoText, JoinLine, JoinBare, PartLine, PaddedPart, QuitLine,
   QuitMore, UnknownLine, BlankLine}
CommandFiles == UNION {[1..n -> CommandLines] : n \in 1..MaxBatch}

CommandsInit ==
  /\ pc = "cc_exec"
  /\ caller = "run"
  /\ running = TRUE
  /\ inHandler = FALSE
  /\ sock = "open"
  /\ registered = TRUE
  /\ sent = <<NickMsg, UserMsg, JoinMsg(Channel)>>
  /\ status = StConnected
  /\ \E q \in CommandFiles :
       /\ commands = Numbered(q)
       /\ lines = Numbered(q)
       /\ appended = {0 - i : i \in 1..Len(q)}
       /\ lastDrain = Len(q)
       /\ batch = q
  /\ outbox = <<NickMsg, UserMsg, JoinMsg(Channel)>>
  /\ inbox = <<>>
  /\ buffer = <<>>
  /\ wbuffer = <<>>
  /\ elapsed = 0
  /\ idle = 0
  /\ nEvents = 1
  /\ executed = <<>>
  /\ written = FALSE
  /\ intAt = "none"
  /\ quitSeen = FALSE
  /\ connResult = "ok"
  /\ framer = FramerIdle

CommandsNext ==
  \/ CheckExec
  \/ CheckClear

SpecCommands == CommandsInit /\ [][CommandsNext]_vars

\* ------------------------------------------- one received chunk of lines
\* run lines 172-216 on a chunk of any complete lines: the daemon is
\* connected, has found no command and has received the chunk (lines 160-170).
JoinIn    == <<":", "bob", "!", "u", SP, "JOIN", SP, ":", "#c">>
PartIn    == <<":", "bob", "!", "u", SP, "PART", SP, "#c">>
ShortChat == <<":", "bob", SP, "PRIVMSG", SP, "JOIN">>
ShortJoin == <<"JOIN", SP, "#c">>
ShortPart == <<"PART">>
PingChat  == <<"PING", SP, "PRIVMSG", SP, "a", SP, "b">>
ChatJoin  == <<":", "bob", "!", "u", SP, "PRIVMSG", SP, "#c", SP, ":", "JOIN", SP, "us">>
NoticeIn  == <<"NOTICE", SP, "x">>
InboundLines ==
  {ChatLine, ChatJoin, ShortChat, JoinIn, ShortJoin, PartIn, ShortPart,
   PingPingLine, PingChat, WelcomeLine, NoticeIn, <<>>}

RECURSIVE Terminated(_)
Terminated(ls) == IF ls = <<>> THEN <<>> ELSE Head(ls) \o CRLF \o Terminated(Tail(ls))

InboundChunks ==
  {Terminated(ls) : ls \in UNION {[1..n -> InboundLines] : n \in 1..MaxInbound}}

InboundInit ==
  /\ pc = "proc"
  /\ caller = "run"
  /\ running = TRUE
  /\ inHandler = FALSE
  /\ sock = "open"
  /\ registered = TRUE
  /\ sent = <<NickMsg, UserMsg, JoinMsg(Channel)>>
  /\ status = StConnected
  /\ commands = <<>>
  /\ lines = <<>>
  /\ outbox = <<NickMsg, UserMsg, JoinMsg(Channel)>>
  /\ inbox = <<>>
  /\ buffer \in InboundChunks
  /\ wbuffer = <<>>
  /\ elapsed = 0
  /\ idle = 0
  /\ nEvents = 2
  /\ executed = <<>>
  /\ appended = {}
  /\ lastDrain = 0
  /\ written = FALSE
  /\ intAt = "none"
  /\ quitSeen = FALSE
  /\ connResult = "ok"
  /\ batch = <<>>
  /\ framer = FramerIdle

InboundNext ==
  \/ ProcLine
  \/ ProcDone

SpecInbound == InboundInit /\ [][InboundNext]_vars

\* ================================================================= claims
IsJoin(m)    == StartsWith(m, <<"JOIN", SP>>)
IsPart(m)    == StartsWith(m, <<"PART", SP>>)
IsPrivmsg(m) == StartsWith(m, <<"PRIVMSG", SP>>)
IsQuit(m)    == StartsWith(m, <<"QUIT">>)
IsChannelTraffic(m) == IsJoin(m) \/ IsPart(m) \/ IsPrivmsg(m)

QuitQueued == \E i \in 1..Len(commands) : Strip(commands[i].text) = <<"QUIT">>

\* A connect call of the running loop (line 166 or 227) ends in failure
ReconnectFails ==
  /\ caller \in {"eof", "exc"}
  /\ running
  /\ ConnectOpenFail \/ WaitExpired \/ WaitRecvEOF

\* C1: reconnect liveness.  A failed reconnect is always followed by another
\* attempt (Reconnecting -> Reconnecting): the step in which a reconnect
\* fails leaves the daemon in the loop, waiting to try again, and never on
\* its way out.
C1_FailedReconnectRetried ==
  [][ReconnectFails => (pc' \notin CleanupPcs \cup {"done"})]_vars

\* C2: the loop is left only after an explicit QUIT command or an interrupt
\* (both clear self.running): whenever the daemon is in its cleanup, the stop
\* flag has been set; no EOF, transport error or failed reconnect gets there.
C2_ExitOnlyOnStop == pc \in CleanupPcs => ~running

\* C3: command exactly-once under a concurrent writer.  Every line ever put
\* into the command file has been executed, is still in the file, or is in
\* the batch being executed; and no line is executed twice.
C3_ExactlyOnce ==
  /\ \A id \in appended :
       \/ \E i \in 1..Len(executed) : executed[i] = id
       \/ \E i \in 1..Len(commands) : commands[i].id = id
       \/ \E i \in 1..Len(lines) : lines[i].id = id
  /\ \A i, j \in 1..Len(executed) : executed[i] = executed[j] => i = j

\* C4: drain idempotence.  A check_commands call that starts when the
\* previous call has returned and the controller has appended nothing since
\* that call read the file executes no command, performs no send, and leaves
\* the stop flag alone.
C4_SecondDrainEmpty ==
  [][(pc = "cc_read" /\ lastDrain >= 0 /\ ~written /\ CheckRead)
       => (pc' = "recv" /\ UNCHANGED <<sent, outbox, running, executed>>)]_vars

\* C4 witness: a drain that read at least one line has returned, nothing was
\* appended since, and the next call is about to start.
C4_Witness == pc = "cc_read" /\ lastDrain >= 1 /\ ~written /\ executed # <<>>

\* C5: graceful stop.  Once a QUIT command has been executed and the
\* transport has been closed, the outbox holds a QUIT record.
C5_QuitLoggedBeforeClose ==
  (quitSeen /\ sock = "closed") => \E i \in 1..Len(outbox) : IsQuit(outbox[i])

\* C6: interrupt handling.  When an interrupt arrived while the daemon was
\* Running or Reconnecting and the process has come to its end, the status
\* is Stopped, a QUIT went out on the session and the transport is closed.
C6_InterruptStopsGracefully ==
  (pc = "done" /\ intAt \in {"Running", "Reconnecting"})
     => (status = StStopped /\ sock = "closed"
         /\ \E i \in 1..Len(sent) : IsQuit(sent[i]))

\* C7: a QUIT in the command queue during the reconnect delay takes effect
\* during the wait: the daemon does not go on from the delay to a new
\* connect attempt while a QUIT is queued.
C7_QuitCutsReconnectWait ==
  [][(pc \in SleepPcs /\ running /\ QuitQueued) => pc' # "c_sock"]_vars

\* The line-handling step of the registration wait or of steady state takes
\* a PING line off its buffer, and the transport accepts what is sent.
PingHandled ==
  \/ /\ pc = "w_line" /\ HasLine(wbuffer) /\ IsPing(FirstLine(wbuffer))
     /\ WaitLine /\ sock = "open" /\ sock' = "open"
  \/ /\ pc = "proc" /\ HasLine(buffer) /\ IsPing(FirstLine(buffer))
     /\ ProcLine /\ sock = "open" /\ sock' = "open"

PingLineHandled == IF pc = "w_line" THEN FirstLine(wbuffer) ELSE FirstLine(buffer)

\* C8: keepalive response.  Handling a PING line sends exactly 'PONG' followed
\* by the line's own token, writes nothing to the inbox, and in the
\* registration wait does not complete registration.
C8_PingAnsweredOnly ==
  [][PingHandled =>
       /\ sent' = Append(sent, <<"PONG">> \o Tail(PingLineHandled))
       /\ inbox' = inbox
       /\ pc = "w_line" => (pc' = "w_line" /\ ~registered')]_vars

ConnectFailures == {"ConnectError", "ConnectionClosed", "RegistrationTimeout"}
ReturnedFalse ==
  /\ connResult \in ConnectFailures
  /\ pc = "cleanup" \/ (pc = "done" /\ caller = "run")

StatusFor(result) ==
  IF result = "ConnectError" THEN StErrConnect
  ELSE IF result = "ConnectionClosed" THEN StErrClosed
  ELSE StErrNoWelcome

C11_NoLineLeftBehind ==
  (pc \in RunningPcs /\ connResult = "ok") => ~HasLine(wbuffer)

\* C12: the session is replaced wholesale.  When a reconnect (line 166 or 227)
\* succeeds, the line-framing buffer of the loop is empty: nothing received on
\* the old connection is kept in front of the bytes of the new one.
C12_BufferEmptyAfterReconnect ==
  [][(caller \in {"eof", "exc"} /\ ConnectJoin) => buffer' = <<>>]_vars

\* C13: Running -> Reconnecting.  During the whole wait that follows an EOF or
\* a transport error of the steady-state receive, the status reads
\* Reconnecting.
C13_ReconnectingDuringWait == pc \in SleepPcs => status = StReconnecting

\* s ends with t
EndsWith(s, t) ==
  Len(s) >= Len(t) /\ SubSeq(s, Len(s) - Len(t) + 1, Len(s)) = t

\* C14: the outbox mirrors the sends.  The lines the transport accepted on
\* the current session are the latest records of the outbox, one record per
\* line and in the same order.
C14_OutboxMirrorsSends == EndsWith(outbox, sent)

\* What the command grammar asks to be sent for one stripped queue line:
\* 'SEND <target> <text>' (target the first token after SEND, text the rest),
\* 'JOIN <channel>', 'PART <channel>'; nothing for any other line.
ExpectedSends(line) ==
  IF Len(line) >= 2 /\ line[1] = "SEND" /\ line[2] = SP
  THEN IF \E i \in 3..Len(line) : line[i] = SP
       THEN LET i == CHOOSE k \in 3..Len(line) :
                       line[k] = SP /\ \A j \in 3..(k - 1) : line[j] # SP
            IN  << <<"PRIVMSG", SP>> \o SubSeq(line, 3, i - 1) \o <<SP, ":">>
                     \o SubSeq(line, i + 1, Len(line)) >>
       ELSE <<>>
  ELSE IF Len(line) >= 2 /\ line[1] \in {"JOIN", "PART"} /\ line[2] = SP
  THEN << <<line[1], SP>> \o SubSeq(line, 3, Len(line)) >>
  ELSE <<>>

\* The sends asked for by a whole batch of queue lines, in queue order
RECURSIVE ExpectedBatch(_)
ExpectedBatch(texts) ==
  IF texts = <<>> THEN <<>>
  ELSE ExpectedSends(Strip(Head(texts))) \o ExpectedBatch(Tail(texts))

\* C15: ordering within one iteration.  When the daemon is at the receive of
\* an iteration (or handling what it received), the drain of that iteration
\* is over and no line of it is left to execute; and at the receive, on a
\* transport that accepted the sends, the latest outbox records are the sends
\* of every line that was in the queue when the iteration read it, in queue
\* order.
C15_CommandsBeforeInbound ==
  /\ pc \in {"recv", "proc"} => (lastDrain >= 0 /\ lines = <<>>)
  /\ (pc = "recv" /\ sock = "open") => EndsWith(outbox, ExpectedBatch(batch))

\* C15 witness: a batch of two or more lines, with sends among them, has been
\* executed and the daemon is at the receive of the same iteration.
C15_Witness ==
  /\ pc = "recv" /\ sock = "open"
  /\ Len(batch) >= 2
  /\ Len(ExpectedBatch(batch)) >= 2

\* C16: keepalive probe.  Arrival of any inbound data restarts the keepalive
\* interval: when the daemon has handled everything a receive returned, the
\* time counted towards the next probe is zero.
C16_DataRestartsInterval == (pc = "proc" /\ ~HasLine(buffer)) => idle = 0

\* The lines and the remainder the loop of lines 172-173 yields when a whole
\* character sequence is in the buffer at once
RECURSIVE LinesOf(_)
LinesOf(s) == IF HasLine(s) THEN <<FirstLine(s)>> \o LinesOf(RestAfter(s)) ELSE <<>>
RECURSIVE RemainderOf(_)
RemainderOf(s) == IF HasLine(s) THEN RemainderOf(RestAfter(s)) ELSE s

\* Every line followed by its terminator, one after another
RECURSIVE Rejoin(_)
Rejoin(ls) == IF ls = <<>> THEN <<>> ELSE Head(ls) \o CRLF \o Rejoin(Tail(ls))

\* C17: framing is independent of chunking.  Whenever the loop is back at the
\* recv, the lines extracted so far are those extracted from everything
\* delivered so far fed at once, the buffer is the one unterminated fragment
\* at its end, and lines and buffer put together again give what was
\* delivered.
C17_ChunkingIndependent ==
  framer.at = "recv" =>
    /\ framer.lines = LinesOf(framer.fed)
    /\ framer.buffer = RemainderOf(framer.fed)
    /\ ~HasLine(framer.buffer)
    /\ Rejoin(framer.lines) \o framer.buffer = framer.fed

\* C17 witness: the whole input was delivered in chunks, a CR LF pair arrived
\* in two different chunks, and a line was extracted.
C17_Witness ==
  /\ framer.at = "recv"
  /\ framer.rest = <<>>
  /\ framer.cut
  /\ framer.lines # <<>>

\* C18: command execution.  Executing one line of the batch on a transport
\* that accepts what is sent sends exactly what the grammar asks for that
\* line (one PRIVMSG, JOIN or PART, or nothing), clears the running flag for
\* the line QUIT and for no other, and goes on to the next line of the batch.
C18_CommandsExecuted ==
  [][(pc = "cc_exec" /\ lines # <<>> /\ sock = "open" /\ CheckExec
        /\ sock' = "open")
       => LET line == Strip(Head(lines).text)
          IN  /\ sent' = sent \o ExpectedSends(line)
              /\ outbox' = outbox \o ExpectedSends(line)
              /\ running' = (running /\ line # <<"QUIT">>)
              /\ lines' = Tail(lines)
              /\ pc' = "cc_exec"]_vars

\* C18 witness: an unknown line was followed in its batch by a SEND whose
\* text has spaces in it; both were executed and the PRIVMSG went out whole.
C18_Witness ==
  /\ pc = "cc_exec" /\ lines = <<>> /\ running
  /\ batch = <<UnknownLine, SendLine>>
  /\ sent[Len(sent)] = <<"PRIVMSG", SP, "#c", SP, ":", "hi", SP, "all">>

\* The classification of one inbound line: the first of the rules Ping
\* (prefix PING), PRIVMSG, JOIN, PART whose keyword the line has decides; a
\* line with fewer fields than its rule needs is Unrecognized, as is a line
\* with none of the keywords.
FieldsOf(line) == Cardinality({i \in 1..Len(line) : line[i] = SP}) + 1
HasWord(line, w) == \E i \in 1..Len(line) : line[i] = w
ClassOf(line) ==
  IF line # <<>> /\ line[1] = "PING" THEN "Ping"
  ELSE IF HasWord(line, "PRIVMSG")
  THEN IF FieldsOf(line) >= 4 THEN "ChatMessage" ELSE "Unrecognized"
  ELSE IF HasWord(line, "JOIN")
  THEN IF FieldsOf(line) >= 3 THEN "Join" ELSE "Unrecognized"
  ELSE IF HasWord(line, "PART")
  THEN IF FieldsOf(line) >= 3 THEN "Part" ELSE "Unrecognized"
  ELSE "Unrecognized"

C20_QuitDoesNotCutBatch ==
  [][/\ (pc = "cc_exec" /\ lines # <<>> /\ CheckExec) => pc' = "cc_exec"
     /\ (pc = "cc_exec" /\ lines = <<>> /\ CheckClear) =>
          /\ pc' = "recv"
          /\ (~running /\ sock = "open") => EndsWith(outbox, ExpectedBatch(batch))
     /\ (pc = "loop" /\ ~running /\ LoopTest) => pc' = "cleanup"]_vars

\* C20 witness: a batch of QUIT followed by SEND was executed, the PRIVMSG of
\* the SEND went out after the flag was cleared, and the receive that follows
\* the batch has returned data.
C20_Witness ==
  /\ pc = "proc" /\ ~running /\ quitSeen
  /\ batch = <<QuitLine, SendLine>>
  /\ sent[Len(sent)] = <<"PRIVMSG", SP, "#c", SP, ":", "hi", SP, "all">>

\* The lines that were in the command file when the daemon was constructed:
\* they carry the negative ids, and the queues of InitialQueues differ in
\* length
NLeftover == Cardinality({id \in appended : id < 0})
Leftover == CHOOSE q \in InitialQueues : Len(q) = NLeftover
LeftoverQuit == \E i \in 1..Len(Leftover) : Strip(Leftover[i]) = <<"QUIT">>

\* C21: startup does not clear the command queue.  Until the first drain the
\* lines left in the command file are still at its front; once the daemon is
\* at a receive they have been executed, first and in their order; at the
\* receive of the first iteration they head the batch, and on a transport
\* that accepted the sends the outbox ends with the sends of that batch; a
\* QUIT among them has cleared the running flag, and the daemon never starts
\* a second drain.
C21_LeftoverExecutedFirst ==
  /\ lastDrain = 0 - 1 =>
       /\ Len(commands) >= NLeftover
       /\ SubSeq(commands, 1, NLeftover) = [i \in 1..NLeftover |->
                                              [id |-> 0 - i, text |-> Leftover[i]]]
  /\ pc \in {"recv", "proc"} =>
       /\ Len(executed) >= NLeftover
       /\ SubSeq(executed, 1, NLeftover) = [i \in 1..NLeftover |-> 0 - i]
       /\ LeftoverQuit => (~running /\ quitSeen)
  /\ (pc = "recv" /\ NLeftover >= 1 /\ Len(executed) = lastDrain) =>
       /\ SubSeq(batch, 1, NLeftover) = Leftover
       /\ sock = "open" => EndsWith(outbox, ExpectedBatch(batch))
  /\ (pc = "cc_read" /\ LeftoverQuit) => lastDrain = 0 - 1

\* C21 witness: the daemon was constructed with SEND and QUIT left in the
\* command file; after its first connect both were executed, the PRIVMSG went
\* out, and the daemon has stopped.
C21_Witness ==
  /\ pc = "done" /\ status = StStopped
  /\ Leftover = <<SendLine, QuitLine>>
  /\ executed = <<0 - 1, 0 - 2>>
  /\ \E i \in 1..Len(outbox) :
       outbox[i] = <<"PRIVMSG", SP, "#c", SP, ":", "hi", SP, "all">>

====
